---- MODULE Spec2Model ----
(***************************************************************************)
(* Live game session of Ether Excel: the Supabase tables (students,        *)
(* game_sessions, responses), the teacher's GameLaunch / LobbyView         *)
(* handlers and every student's WaitingRoom component with its React       *)
(* state, its timers and the closures its delayed callbacks run with.      *)
(*                                                                         *)
(* Topic and question indices are 0-based as in the source; a question is  *)
(* identified by <<topic index, question index>>.                          *)
(***************************************************************************)
EXTENDS Integers, Sequences, FiniteSets, TLC

(* ---------------------------------------------------------------- bounds *)
MaxInbox == 1
MaxStarts == 2
\* joined students plus started games
MaxLoad == 3
MaxBans == 1
MaxResponses == 2
\* requests of one polling client that are in flight together
MaxFetches == 2
\* rows of the game_sessions table
MaxSessions == 3

Students == {"s1", "s2"}
Options == {"A", "B"}
\* the names students type into the join form
Names == {"n1", "n2"}
\* chapter contents (number of questions of each topic) a session is run on
Contents == {<< >>, <<1>>, <<2, 0>>, <<0, 1>>}
\* the codes generateGameCode may draw
Codes == {"K1", "K2"}
\* the clients that call getOrCreateDefaultGameSession or banStudentFromSession
Callers == {"t1", "t2"}

(* ------------------------------------------------------ program constants *)
COUNTDOWN_FROM == 5
NullCountdown == -1
TimeoutOption == "timeout"
NoTimer == [armed |-> FALSE, ti |-> 0, qi |-> 0, answered |-> FALSE]
NoQuestion == << >>
NoTopic == -1
NoName == ""
\* selectedOption null
NoOption == "none"
\* isCorrect is null or a boolean: the empty sequence or the boolean in one
NullCorrect == << >>
\* useState<GameSession | null>(null)
NoSession == [status |-> "none", banned_students |-> << >>]
\* every student joins under a name of their own
OwnName(c) == IF c = "s1" THEN "n1" ELSE "n2"

VARIABLES
    topics,      \* AppContext topics/questions: Seq of question counts
    roster,      \* students table: ids of the rows, in joined_at order
    sstatus,     \* students table: status column, by id
    session,     \* game_sessions row: [status, banned_students]
    responses,   \* responses table: the rows of each student, in insertion order
    cl,          \* the WaitingRoom component of each student
    inbox,       \* realtime UPDATE events not yet handled, per client
    teacher,     \* the teacher's client: handler position and local state
    game_sessions, \* game_sessions table as the functions that create sessions
                 \* see it: the rows [status, game_code] in created_at order
    calls        \* the calls of getOrCreateDefaultGameSession and of
                 \* banStudentFromSession that clients run side by side

\* the variables of the game that runs on the teacher's session row
gameVars == <<topics, roster, sstatus, session, responses, cl, inbox, teacher>>

vars == <<topics, roster, sstatus, session, responses, cl, inbox, teacher,
          game_sessions, calls>>

(* ------------------------------------------------------------- helpers *)
Min(a, b) == IF a < b THEN a ELSE b

\* the students that joined and the starts the teacher made so far
Load == Cardinality({c \in Students : cl[c].mounted}) + teacher.starts

\* variant: the delete matches no row
SeqRemoveNothing(s, x) == s

RECURSIVE SeqRemove(_, _)
SeqRemove(s, x) ==
    IF s = << >> THEN << >>
    ELSE IF Head(s) = x THEN SeqRemove(Tail(s), x)
    ELSE <<Head(s)>> \o SeqRemove(Tail(s), x)

SeqElems(s) == {s[i] : i \in 1..Len(s)}

Reverse(s) == [i \in 1..Len(s) |-> s[Len(s) + 1 - i]]

(* ------------------------------------- WaitingRoom: content accessors *)
getCurrentTopic(ti) == IF Len(topics) > ti THEN ti ELSE NoTopic

getTopicQuestions(topic) == IF topic # NoTopic THEN topics[topic + 1] ELSE 0

getCurrentQuestion(ti, qi) ==
    IF getTopicQuestions(getCurrentTopic(ti)) > qi THEN <<ti, qi>> ELSE NoQuestion

correct_option(q) == IF (q[1] + q[2]) % 2 = 0 THEN "A" ELSE "B"

(* ------------------------------------------- WaitingRoom: React effects *)
\* useEffect [gameState.status]: startCountdown() or setShowingNarrative(true).
\* startCountdown overwrites countdownTimerRef without clearing it, so an
\* interval that is still running keeps ticking (cdLeaked).
GameStateEffect(old, new) ==
    IF new.status = old.status THEN new
    ELSE IF new.status = "countdown"
         THEN [new EXCEPT !.countdown = COUNTDOWN_FROM,
                          !.cdLeaked = new.cdLeaked \/ new.cdRef,
                          !.cdRef = TRUE]
    ELSE IF new.status = "playing"
         THEN [new EXCEPT !.showingNarrative = TRUE]
    ELSE new

TimerDeps(r) == <<r.status, r.showingNarrative, r.qi, r.answered>>

\* the condition under which the question-timer effect calls startQuestionTimer
TimerCondition(r) == r.status = "playing" /\ ~r.showingNarrative /\ ~r.answered

\* useEffect [status, showingNarrative, currentQuestionIndex, answered]:
\* the cleanup clears the running interval, the effect starts a new one whose
\* callbacks close over the state of this render
TimerEffect(old, new) ==
    IF TimerDeps(new) = TimerDeps(old) THEN new
    ELSE [new EXCEPT !.timer =
            IF TimerCondition(new)
            THEN [armed |-> TRUE, ti |-> new.ti, qi |-> new.qi, answered |-> new.answered]
            ELSE NoTimer]

\* state after the handler's setState calls have been rendered and the
\* effects have run
Commit(old, new) == TimerEffect(old, GameStateEffect(old, new))

\* the component before it is mounted / right after useState initialisation
InitialClient(st) ==
    [mounted |-> FALSE, name |-> NoName, status |-> st, countdown |-> NullCountdown,
     cdRef |-> FALSE, cdLeaked |-> FALSE, cdTimeout |-> FALSE,
     ti |-> 0, qi |-> 0, showingNarrative |-> FALSE, answered |-> FALSE,
     timer |-> NoTimer, advances |-> << >>,
     gameSession |-> NoSession, fetches |-> << >>,
     selectedOption |-> NoOption, isCorrect |-> NullCorrect,
     correctAnswers |-> 0, totalAnswered |-> 0]

\* first render: every effect runs once
Mount(st) ==
    LET r0 == [InitialClient(st) EXCEPT !.mounted = TRUE]
        r1 == IF st = "playing" THEN [r0 EXCEPT !.showingNarrative = TRUE] ELSE r0
    IN  [r1 EXCEPT !.timer =
            IF TimerCondition(r1)
            THEN [armed |-> TRUE, ti |-> r1.ti, qi |-> r1.qi, answered |-> FALSE]
            ELSE NoTimer]

\* what the component renders
Screen(r) ==
    IF ~r.mounted THEN "none"
    ELSE IF r.countdown # NullCountdown THEN "countdown"
    ELSE IF r.status = "results" THEN "results"
    ELSE IF r.status = "playing" /\ r.showingNarrative /\ getCurrentTopic(r.ti) # NoTopic
         THEN "narrative"
    ELSE IF r.status = "playing" /\ getCurrentQuestion(r.ti, r.qi) # NoQuestion
         THEN "question"
    ELSE "waiting"

(* -------------------------------------------------------- realtime push *)
\* an UPDATE event is queued for every subscribed client in `to`
Notify(to) ==
    [c \in Students |->
        IF c \in to /\ cl[c].mounted THEN Min(inbox[c] + 1, MaxInbox) ELSE inbox[c]]

(* ------------------------------------------------------ database service *)
\* number of rows of the responses table
RECURSIVE TotalResponses(_)
TotalResponses(S) ==
    IF S = {} THEN 0
    ELSE LET s == CHOOSE x \in S : TRUE
         IN  Len(responses[s]) + TotalResponses(S \ {s})

\* variant: the row replaces the rows the student has
saveStudentResponseReplacing(studentId, questionId, selectedOption, isCorrect) ==
    [responses EXCEPT ![studentId] =
        <<[student_id |-> studentId, question_id |-> questionId,
           selected_option |-> selectedOption, is_correct |-> isCorrect,
           submitted_at |-> TotalResponses(Students) + 1]>>]

\* variant: every row is stored as a correct answer
saveStudentResponseAsCorrect(studentId, questionId, selectedOption, isCorrect) ==
    [responses EXCEPT ![studentId] =
        Append(@, [student_id |-> studentId, question_id |-> questionId,
                   selected_option |-> selectedOption, is_correct |-> TRUE,
                   submitted_at |-> TotalResponses(Students) + 1])]

\* submitted_at: the rows are numbered in the order they are inserted
saveStudentResponse(studentId, questionId, selectedOption, isCorrect) ==
    [responses EXCEPT ![studentId] =
        Append(@, [student_id |-> studentId, question_id |-> questionId,
                   selected_option |-> selectedOption, is_correct |-> isCorrect,
                   submitted_at |-> TotalResponses(Students) + 1])]

\* update ... eq('id', studentId).select().single(): no row is an error
updateStudentStatus(studentId, status) ==
    [sstatus EXCEPT ![studentId] = status]

updateGameSessionStatus(status) == [session EXCEPT !.status = status]

(* ---------------------------------------------------------------- Init *)
Init ==
    /\ topics \in Contents
    /\ roster = << >>
    /\ sstatus = [s \in Students |-> "absent"]
    /\ session = [status |-> "not_started", banned_students |-> << >>]
    /\ responses = [s \in Students |-> << >>]
    /\ cl = [s \in Students |-> InitialClient("waiting")]
    /\ inbox = [s \in Students |-> 0]
    /\ teacher = [pc |-> "idle", students |-> << >>, queue |-> << >>,
                  target |-> "s1", banned |-> << >>, starts |-> 0, bans |-> 0,
                  view |-> "launch", lstudents |-> << >>, playerStats |-> << >>,
                  lpc |-> "idle", lqueue |-> << >>, lstats |-> << >>, seen |-> 0]
    /\ game_sessions = << >>
    /\ calls = [k \in Callers |-> [pc |-> "idle", result |-> 0, target |-> "s1",
                                   banned |-> << >>, done |-> {}]]

(* ------------------------------------------------------ student actions *)
\* joinAsPlayer(name): a students row with a new id is inserted, the name is
\* kept as authState.user.display_name and the WaitingRoom is mounted with the
\* gameState the AppContext of this browser tab holds
Join(c, st, name) ==
    /\ ~cl[c].mounted
    /\ c = "s1" \/ cl["s1"].mounted
    /\ c = "s1" => name = "n1"
    /\ Load < MaxLoad
    /\ roster' = Append(roster, c)
    /\ sstatus' = [sstatus EXCEPT ![c] = "waiting"]
    /\ cl' = [cl EXCEPT ![c] = [Mount(st) EXCEPT !.name = name]]
    /\ UNCHANGED <<topics, session, responses, inbox, teacher,
                   game_sessions, calls>>

\* students / game_sessions subscription callbacks
Deliver(c) ==
    /\ cl[c].mounted
    /\ inbox[c] > 0
    /\ inbox' = [inbox EXCEPT ![c] = @ - 1]
    /\ cl' = [cl EXCEPT ![c] = Commit(@, [@ EXCEPT !.status = "countdown"])]
    /\ UNCHANGED <<topics, roster, sstatus, session, responses, teacher,
                   game_sessions, calls>>

\* the updater startCountdown passes to setCountdown
CountdownUpdater(r) ==
    IF r.countdown = 1
    THEN [r EXCEPT !.countdown = 0, !.cdRef = FALSE, !.cdTimeout = TRUE]
    ELSE [r EXCEPT !.countdown =
            IF r.countdown \notin {NullCountdown, 0} THEN r.countdown - 1
            ELSE NullCountdown]

\* the ticks that only lower the displayed number are taken in one step
RECURSIVE TickDown(_)
TickDown(r) ==
    IF r.countdown > 2 THEN TickDown(CountdownUpdater(r)) ELSE CountdownUpdater(r)

CountdownTick(c) ==
    /\ cl[c].mounted
    /\ cl[c].cdRef \/ cl[c].cdLeaked
    /\ TickDown(cl[c]) # cl[c]
    /\ cl' = [cl EXCEPT ![c] = TickDown(@)]
    /\ UNCHANGED <<topics, roster, sstatus, session, responses, inbox, teacher,
                   game_sessions, calls>>

\* the setTimeout of startCountdown
CountdownElapsed(c) ==
    /\ cl[c].mounted
    /\ cl[c].cdTimeout
    /\ cl' = [cl EXCEPT ![c] =
                Commit(@, [@ EXCEPT !.cdTimeout = FALSE, !.status = "playing"])]
    /\ UNCHANGED <<topics, roster, sstatus, session, responses, inbox, teacher,
                   game_sessions, calls>>

handleContinueFromNarrative(c) ==
    /\ Screen(cl[c]) = "narrative"
    /\ cl' = [cl EXCEPT ![c] =
                Commit(@, [@ EXCEPT !.showingNarrative = FALSE, !.answered = FALSE,
                                    !.selectedOption = NoOption,
                                    !.isCorrect = NullCorrect])]
    /\ UNCHANGED <<topics, roster, sstatus, session, responses, inbox, teacher,
                   game_sessions, calls>>

handleAnswer(c, option) ==
    LET r == cl[c]
        q == getCurrentQuestion(r.ti, r.qi)
        correct == option = correct_option(q)
    IN  /\ Screen(r) = "question"
        /\ ~r.answered
        /\ TotalResponses(Students) < MaxResponses
        /\ responses' = saveStudentResponse(c, q, option, correct)
        /\ cl' = [cl EXCEPT ![c] =
                    Commit(r, [r EXCEPT !.timer = NoTimer,
                                        !.answered = TRUE,
                                        !.selectedOption = option,
                                        !.isCorrect = <<correct>>,
                                        !.totalAnswered = @ + 1,
                                        !.correctAnswers =
                                            IF correct THEN @ + 1 ELSE @,
                                        !.advances = Append(@, <<r.ti, r.qi>>)])]
        /\ UNCHANGED <<topics, roster, sstatus, session, inbox, teacher,
                       game_sessions, calls>>

\* the last tick of the question interval: it clears itself and calls the
\* handleTimeUp of the render that started it
handleTimeUp(c) ==
    LET r == cl[c]
        t == r.timer
        q == getCurrentQuestion(t.ti, t.qi)
        records == ~t.answered /\ q # NoQuestion
    IN  /\ r.mounted
        /\ t.armed
        /\ TotalResponses(Students) < MaxResponses
        /\ responses' = IF records
                        THEN saveStudentResponse(c, q, TimeoutOption, FALSE)
                        ELSE responses
        /\ cl' = [cl EXCEPT ![c] =
                    IF records
                    THEN Commit(r, [r EXCEPT !.timer = NoTimer,
                                             !.answered = TRUE,
                                             !.selectedOption = NoOption,
                                             !.isCorrect = <<FALSE>>,
                                             !.totalAnswered = @ + 1,
                                             !.advances = Append(@, <<t.ti, t.qi>>)])
                    ELSE [r EXCEPT !.timer = NoTimer]]
        /\ UNCHANGED <<topics, roster, sstatus, session, inbox, teacher,
                       game_sessions, calls>>

\* variant: the game ends after every question
NextPositionEndsGame(r, ti, qi) ==
    [r EXCEPT !.status = "results", !.answered = FALSE,
              !.selectedOption = NoOption, !.isCorrect = NullCorrect]

\* where moveToNextQuestion, run with the indices <<ti, qi>> of its closure,
\* takes the component
NextPosition(r, ti, qi) ==
    LET reset == [r EXCEPT !.answered = FALSE, !.selectedOption = NoOption,
                           !.isCorrect = NullCorrect]
    IN  IF qi < getTopicQuestions(getCurrentTopic(ti)) - 1
        THEN [reset EXCEPT !.qi = qi + 1]
        ELSE IF ti < Len(topics) - 1
        THEN [reset EXCEPT !.ti = ti + 1, !.qi = 0, !.showingNarrative = TRUE]
        ELSE [reset EXCEPT !.status = "results"]

GameComplete(ti, qi) ==
    /\ ~(qi < getTopicQuestions(getCurrentTopic(ti)) - 1)
    /\ ~(ti < Len(topics) - 1)

\* setTimeout(moveToNextQuestion, 3000)
moveToNextQuestion(c) ==
    LET r == cl[c]
        ti == Head(r.advances)[1]
        qi == Head(r.advances)[2]
        popped == [r EXCEPT !.advances = Tail(@)]
    IN  /\ r.mounted
        /\ r.advances # << >>
        /\ cl' = [cl EXCEPT ![c] = Commit(r, NextPosition(popped, ti, qi))]
        /\ sstatus' = IF GameComplete(ti, qi) /\ sstatus[c] # "absent"
                      THEN updateStudentStatus(c, "completed")
                      ELSE sstatus
        /\ UNCHANGED <<topics, roster, session, responses, inbox, teacher,
                       game_sessions, calls>>

(* ------------------------------------------------------ teacher actions *)
\* fetchStudents: getAllStudents() orders by joined_at descending
fetchStudents ==
    /\ teacher.pc = "idle"
    /\ teacher.students # Reverse(roster)
    /\ teacher' = [teacher EXCEPT !.students = Reverse(roster)]
    /\ UNCHANGED <<topics, roster, sstatus, session, responses, cl, inbox,
                   game_sessions, calls>>

\* GameLaunch.handleStartGame, up to its first await
StartGameBegin ==
    /\ teacher.pc = "idle"
    /\ teacher.students # << >>
    /\ teacher.starts < MaxStarts
    /\ Load < MaxLoad
    /\ teacher' = [teacher EXCEPT !.pc = "start", !.queue = teacher.students,
                                  !.starts = @ + 1]
    /\ UNCHANGED <<topics, roster, sstatus, session, responses, cl, inbox,
                   game_sessions, calls>>

\* await updateStudentStatus(student.id, 'playing')
StartGameStudent ==
    /\ teacher.pc = "start"
    /\ teacher.queue # << >>
    /\ LET s == Head(teacher.queue) IN
        IF sstatus[s] = "absent"
        THEN /\ teacher' = [teacher EXCEPT !.pc = "idle", !.queue = << >>]
             /\ UNCHANGED <<sstatus, inbox>>
        ELSE /\ sstatus' = updateStudentStatus(s, "playing")
             /\ inbox' = Notify({s})
             /\ teacher' = [teacher EXCEPT !.queue = Tail(@)]
    /\ UNCHANGED <<topics, roster, session, responses, cl,
                   game_sessions, calls>>

\* await updateGameSessionStatus(gameSession.id, 'in_progress')
StartGameSession ==
    /\ teacher.pc = "start"
    /\ teacher.queue = << >>
    /\ session' = updateGameSessionStatus("in_progress")
    /\ inbox' = Notify(Students)
    /\ teacher' = [teacher EXCEPT !.pc = "idle"]
    /\ UNCHANGED <<topics, roster, sstatus, responses, cl,
                   game_sessions, calls>>

\* LobbyView.handleStartGame: only the session row is updated
LobbyStartGame ==
    /\ teacher.pc = "idle"
    /\ teacher.starts < MaxStarts
    /\ Load < MaxLoad
    /\ session' = updateGameSessionStatus("in_progress")
    /\ inbox' = Notify(Students)
    /\ teacher' = [teacher EXCEPT !.starts = @ + 1]
    /\ UNCHANGED <<topics, roster, sstatus, responses, cl,
                   game_sessions, calls>>

\* banStudentFromSession: select banned_students
BanRead(s) ==
    /\ teacher.pc = "idle"
    /\ teacher.bans < MaxBans
    /\ s \in SeqElems(teacher.students)
    /\ teacher' = [teacher EXCEPT !.pc = "ban_update", !.target = s,
                                  !.banned = session.banned_students,
                                  !.bans = @ + 1]
    /\ UNCHANGED <<topics, roster, sstatus, session, responses, cl, inbox,
                   game_sessions, calls>>

\* the list the read returned, with the student pushed unless included
BannedWith(list, s) == IF s \in SeqElems(list) THEN list ELSE Append(list, s)

\* variant: the update also writes the status column back to not_started
BanUpdateResetsStatus ==
    /\ teacher.pc = "ban_update"
    /\ session' = [status |-> "not_started",
                   banned_students |-> BannedWith(teacher.banned, teacher.target)]
    /\ inbox' = IF session.status = "in_progress" THEN Notify(Students) ELSE inbox
    /\ teacher' = [teacher EXCEPT !.pc = "ban_remove"]
    /\ UNCHANGED <<topics, roster, sstatus, responses, cl,
                   game_sessions, calls>>

\* banStudentFromSession: update({ banned_students })
BanUpdate ==
    /\ teacher.pc = "ban_update"
    /\ session' = [session EXCEPT
                      !.banned_students = BannedWith(teacher.banned, teacher.target)]
    /\ inbox' = IF session.status = "in_progress" THEN Notify(Students) ELSE inbox
    /\ teacher' = [teacher EXCEPT !.pc = "ban_remove"]
    /\ UNCHANGED <<topics, roster, sstatus, responses, cl,
                   game_sessions, calls>>

\* banStudentFromSession: removeStudent(studentId)
BanRemove ==
    /\ teacher.pc = "ban_remove"
    /\ roster' = SeqRemove(roster, teacher.target)
    /\ sstatus' = [sstatus EXCEPT ![teacher.target] = "absent"]
    /\ teacher' = [teacher EXCEPT !.pc = "idle"]
    /\ UNCHANGED <<topics, session, responses, cl, inbox, game_sessions, calls>>

Next ==
    \/ \E c \in Students, st \in {"waiting", "playing"} : Join(c, st, OwnName(c))
    \/ \E c \in Students : Deliver(c)
    \/ \E c \in Students : CountdownTick(c)
    \/ \E c \in Students : CountdownElapsed(c)
    \/ \E c \in Students : handleContinueFromNarrative(c)
    \/ \E c \in Students, o \in Options : handleAnswer(c, o)
    \/ \E c \in Students : handleTimeUp(c)
    \/ \E c \in Students : moveToNextQuestion(c)
    \/ fetchStudents
    \/ StartGameBegin
    \/ StartGameStudent
    \/ StartGameSession
    \/ LobbyStartGame
    \/ \E s \in Students : BanRead(s)
    \/ BanUpdate
    \/ BanRemove

Spec == Init /\ [][Next]_vars

(* ---------------------------------------------- LobbyView: the leaderboard *)
\* teacher.view: the view App renders; lstudents, playerStats: the state of
\* LobbyView; lpc, lqueue, lstats: a running fetchLeaderboardData; seen: the
\* number of responses whose realtime event the view has handled
RECURSIVE SumSeq(_)
SumSeq(q) == IF q = << >> THEN 0 ELSE Head(q) + SumSeq(Tail(q))

getTotalQuestions == SumSeq(topics)

\* the orders in which a select without order by may return the rows
RowOrders(rows) ==
    {[i \in 1..Len(rows) |-> rows[f[i]]] :
        f \in {g \in [1..Len(rows) -> 1..Len(rows)] :
                  \A i, j \in 1..Len(rows) : i # j => g[i] # g[j]}}

\* the rows of a student, in one of the orders the select may return them
getStudentResponses(studentId) == RowOrders(responses[studentId])

\* variant: every answered question scores
PlayerStatsOfAnswered(student, rows) ==
    [studentId |-> student, studentName |-> cl[student].name,
     currentQuestion |-> Min(Len(rows), getTotalQuestions),
     correctAnswers |-> Len(SelectSeq(rows, LAMBDA r : r.is_correct)),
     totalAnswered |-> Len(rows),
     score |-> Len(rows) * 10]

\* variant: correct answers score only when the first row returned is correct
PlayerStatsOfStreak(student, rows) ==
    LET counted == IF rows # << >> /\ Head(rows).is_correct
                   THEN Len(SelectSeq(rows, LAMBDA r : r.is_correct)) ELSE 0
    IN  [studentId |-> student, studentName |-> cl[student].name,
         currentQuestion |-> Min(Len(rows), getTotalQuestions),
         correctAnswers |-> counted,
         totalAnswered |-> Len(rows),
         score |-> counted * 10]

\* the PlayerStats fetchLeaderboardData pushes for a student
PlayerStatsOf(student, rows) ==
    LET correctAnswers == Len(SelectSeq(rows, LAMBDA r : r.is_correct))
        totalAnswered == Len(rows)
    IN  [studentId |-> student, studentName |-> cl[student].name,
         currentQuestion |-> Min(totalAnswered, getTotalQuestions),
         correctAnswers |-> correctAnswers, totalAnswered |-> totalAnswered,
         score |-> correctAnswers * 10]

\* variant: an entry goes before the entries of equal score
RECURSIVE InsertByScoreTiesFirst(_, _)
InsertByScoreTiesFirst(sorted, e) ==
    IF sorted = << >> THEN <<e>>
    ELSE IF Head(sorted).score > e.score
         THEN <<Head(sorted)>> \o InsertByScoreTiesFirst(Tail(sorted), e)
    ELSE <<e>> \o sorted

\* stats.sort((a, b) => b.score - a.score): a stable sort
RECURSIVE InsertByScore(_, _)
InsertByScore(sorted, e) ==
    IF sorted = << >> THEN <<e>>
    ELSE IF Head(sorted).score >= e.score
         THEN <<Head(sorted)>> \o InsertByScore(Tail(sorted), e)
    ELSE <<e>> \o sorted

RECURSIVE SortByScore(_)
SortByScore(stats) ==
    IF stats = << >> THEN << >>
    ELSE InsertByScore(SortByScore(SubSeq(stats, 1, Len(stats) - 1)),
                       stats[Len(stats)])

\* the students of the render whose effect (dependencies []) created the
\* interval and the subscription: the initial useState value
MountStudents == << >>

\* fetchLeaderboardData over a list of students, its reads taken at once
RECURSIVE BoardOf(_)
BoardOf(list) ==
    IF list = << >> THEN << >>
    ELSE <<PlayerStatsOf(Head(list), responses[Head(list)])>> \o BoardOf(Tail(list))

\* setView('lobby'): LobbyView mounts; its effect runs fetchLeaderboardData
\* and subscribes to the responses table
LobbyOpen ==
    /\ teacher.pc = "idle"
    /\ teacher.view = "launch"
    /\ teacher' = [teacher EXCEPT !.view = "lobby", !.lstudents = << >>,
                                  !.playerStats = SortByScore(BoardOf(MountStudents)),
                                  !.lpc = "idle", !.lqueue = << >>, !.lstats = << >>,
                                  !.seen = TotalResponses(Students)]
    /\ UNCHANGED <<topics, roster, sstatus, session, responses, cl, inbox,
                   game_sessions, calls>>

\* LobbyView.fetchStudents (on mount, every 5 s, on refresh)
LobbyFetchStudents ==
    /\ teacher.view = "lobby"
    /\ teacher.lstudents # Reverse(roster)
    /\ teacher' = [teacher EXCEPT !.lstudents = Reverse(roster)]
    /\ UNCHANGED <<topics, roster, sstatus, session, responses, cl, inbox,
                   game_sessions, calls>>

\* the 5 s interval: fetchLeaderboardData of the mount render
LobbyPoll ==
    /\ teacher.view = "lobby"
    /\ teacher.playerStats # SortByScore(BoardOf(MountStudents))
    /\ teacher' = [teacher EXCEPT !.playerStats = SortByScore(BoardOf(MountStudents))]
    /\ UNCHANGED <<topics, roster, sstatus, session, responses, cl, inbox,
                   game_sessions, calls>>

\* the responses subscription: fetchLeaderboardData of the mount render
LobbyPush ==
    /\ teacher.view = "lobby"
    /\ teacher.seen < TotalResponses(Students)
    /\ teacher' = [teacher EXCEPT !.seen = TotalResponses(Students),
                                  !.playerStats = SortByScore(BoardOf(MountStudents))]
    /\ UNCHANGED <<topics, roster, sstatus, session, responses, cl, inbox,
                   game_sessions, calls>>

\* handleRefresh: fetchLeaderboardData of the current render starts
LobbyRefresh ==
    /\ teacher.view = "lobby"
    /\ teacher.lpc = "idle"
    /\ teacher' = [teacher EXCEPT !.lpc = "board", !.lqueue = teacher.lstudents,
                                  !.lstats = << >>]
    /\ UNCHANGED <<topics, roster, sstatus, session, responses, cl, inbox,
                   game_sessions, calls>>

\* fetchLeaderboardData: await getStudentResponses(student.id); stats.push
LobbyBoardStudent ==
    /\ teacher.lpc = "board"
    /\ teacher.lqueue # << >>
    /\ \E rows \in getStudentResponses(Head(teacher.lqueue)) :
          teacher' = [teacher EXCEPT
                         !.lqueue = Tail(@),
                         !.lstats = Append(@, PlayerStatsOf(Head(teacher.lqueue), rows))]
    /\ UNCHANGED <<topics, roster, sstatus, session, responses, cl, inbox,
                   game_sessions, calls>>

\* fetchLeaderboardData: stats.sort; setPlayerStats(stats)
LobbyBoardEnd ==
    /\ teacher.lpc = "board"
    /\ teacher.lqueue = << >>
    /\ teacher' = [teacher EXCEPT !.lpc = "idle", !.lstats = << >>,
                                  !.playerStats = SortByScore(teacher.lstats)]
    /\ UNCHANGED <<topics, roster, sstatus, session, responses, cl, inbox,
                   game_sessions, calls>>

\* the students play and are banned while the teacher watches the leaderboard
NextLobby ==
    \/ \E c \in Students, st \in {"waiting", "playing"} : Join(c, st, OwnName(c))
    \/ \E c \in Students : handleContinueFromNarrative(c)
    \/ \E c \in Students, o \in Options : handleAnswer(c, o)
    \/ \E c \in Students : handleTimeUp(c)
    \/ \E c \in Students : moveToNextQuestion(c)
    \/ fetchStudents
    \/ \E s \in Students : BanRead(s)
    \/ BanUpdate
    \/ BanRemove
    \/ LobbyOpen
    \/ LobbyFetchStudents
    \/ LobbyPoll
    \/ LobbyPush
    \/ LobbyRefresh
    \/ LobbyBoardStudent
    \/ LobbyBoardEnd

SpecLobby == Init /\ [][NextLobby]_vars

(* ------------------------------------------------- registry specification *)
\* the database service's updateGameSessionStatus called with any status of
\* its parameter type; clients react to an UPDATE that carries in_progress
SetSessionStatus(status) ==
    /\ teacher.pc = "idle"
    /\ session.status # status
    /\ session' = updateGameSessionStatus(status)
    /\ inbox' = IF status = "in_progress" THEN Notify(Students) ELSE inbox
    /\ UNCHANGED <<topics, roster, sstatus, responses, cl, teacher,
                   game_sessions, calls>>

\* joins under any name, play, bans and direct status updates
NextRegistry ==
    \/ \E c \in Students, st \in {"waiting", "playing"}, n \in Names : Join(c, st, n)
    \/ \E status \in {"not_started", "in_progress", "completed"} :
            SetSessionStatus(status)
    \/ \E c \in Students : handleContinueFromNarrative(c)
    \/ \E c \in Students, o \in Options : handleAnswer(c, o)
    \/ \E c \in Students : handleTimeUp(c)
    \/ \E c \in Students : moveToNextQuestion(c)
    \/ fetchStudents
    \/ \E s \in Students : BanRead(s)
    \/ BanUpdate
    \/ BanRemove

SpecRegistry == Init /\ [][NextRegistry]_vars

(* ------------------------------------------------------------ properties *)
\* the rows of the responses table of participant p for question q
RecordsFor(p, q) == SelectSeq(responses[p], LAMBDA r : r.question_id = q)

AllQuestions == {<<t, q>> : t \in 0..1, q \in 0..1}

StatusRank(status) ==
    CASE status = "not_started" -> 0
      [] status = "in_progress" -> 1
      [] status = "completed" -> 2

\* C1: after any sequence of answers (handleAnswer) and question timeouts
\* (handleTimeUp) the responses table holds at most one row for every
\* (participant, question) pair.
C1_AtMostOneRecord ==
    \A p \in Students, q \in AllQuestions : Len(RecordsFor(p, q)) <= 1

\* C2: once a (participant, question) pair has a row, every later submission
\* for the pair is rejected: the rows of the pair stay exactly the first one,
\* with its option and correctness.
C2_FirstRecordKept ==
    [][\A p \in Students, q \in AllQuestions :
            RecordsFor(p, q) # << >> => RecordsFor(p, q)' = RecordsFor(p, q)]_vars

\* C3: the session status only moves forward along
\* not_started -> in_progress -> completed, and no step of
\* banStudentFromSession changes it.
C3_StatusForwardOnly ==
    [][/\ StatusRank(session'.status) >= StatusRank(session.status)
       /\ ((\E s \in Students : BanRead(s)) \/ BanUpdate \/ BanRemove)
              => session'.status = session.status]_vars

\* banStudentFromSession has just written banned_students of a session that
\* is in progress
C3_Witness ==
    /\ session.status = "in_progress"
    /\ teacher.pc = "ban_remove"
    /\ teacher.target \in SeqElems(session.banned_students)

\* C4: a start of the game on a session that is not not_started changes
\* neither the session row nor the status of any student.
C4_StartOnlyFromNotStarted ==
    [][(/\ session.status # "not_started"
        /\ StartGameStudent \/ StartGameSession \/ LobbyStartGame)
            => (session' = session /\ sstatus' = sstatus)]_vars

\* C5: when handleStartGame completes on a not_started session, the session
\* is in_progress, every student row of the session has status playing, and
\* every student's client is in the countdown or has the event that puts it
\* there on its way.
C5_StartMovesEveryone ==
    [][(StartGameSession /\ session.status = "not_started")
            => /\ session'.status = "in_progress"
               /\ \A s \in SeqElems(roster') : sstatus'[s] = "playing"
               /\ \A c \in Students :
                    cl'[c].mounted => (cl'[c].status = "countdown" \/ inbox'[c] > 0)]_vars

\* C6: when the countdown has elapsed the student sees the narrative of
\* topic 0, or the results if the chapter has no topic.
C6_CountdownLeadsToNarrative ==
    [][\A c \in Students :
            CountdownElapsed(c)
                => IF Len(topics) = 0
                   THEN Screen(cl'[c]) = "results"
                   ELSE Screen(cl'[c]) = "narrative" /\ cl'[c].ti = 0]_vars

C8_EmptyTopicNeverEntered ==
    \A c \in Students :
        ~(/\ cl[c].mounted
          /\ cl[c].status = "playing"
          /\ ~cl[c].showingNarrative
          /\ getCurrentTopic(cl[c].ti) # NoTopic
          /\ getTopicQuestions(getCurrentTopic(cl[c].ti)) = 0)

C10_AdvancedOnce ==
    [][\A c \in Students :
            moveToNextQuestion(c) => Len(RecordsFor(c, Head(cl[c].advances))) = 1]_vars

\* the student's id is on the session's banned list
Banned(c) == c \in SeqElems(session.banned_students)

ParticipantRank(status) ==
    CASE status = "waiting" -> 0
      [] status = "playing" -> 1
      [] status = "completed" -> 2

\* C12: once a student is on the banned list no row is added to their
\* responses, and nobody joins under the name of a banned student.
C12_BannedStaysOut ==
    [][/\ \A c \in Students : Banned(c) => responses'[c] = responses[c]
       /\ \A c \in Students, st \in {"waiting", "playing"}, n \in Names :
              Join(c, st, n) => ~\E b \in Students : Banned(b) /\ cl[b].name = n]_vars

C14_OneRowPerIdentity ==
    \A n \in Names : Cardinality({c \in SeqElems(roster) : cl[c].name = n}) <= 1

\* C15: the status of a student row only moves forward along
\* waiting -> playing -> completed.
C15_StudentStatusMonotonic ==
    [][\A c \in Students :
            (sstatus[c] # "absent" /\ sstatus'[c] # "absent")
                => ParticipantRank(sstatus'[c]) >= ParticipantRank(sstatus[c])]_vars

\* C20: a student who joins while the session is in progress is not left in
\* the waiting room: the client starts in the phase the session is in.
C20_LateJoinerEntersGame ==
    [][\A c \in Students, st \in {"waiting", "playing"}, n \in Names :
            (Join(c, st, n) /\ session.status = "in_progress")
                => cl'[c].status # "waiting"]_vars

(* ------------------------------------------- WaitingRoom: session polling *)
\* cl[c].gameSession: the session row the polling WaitingRoom holds;
\* cl[c].fetches: the rows its getGameSessionByCode requests read, whose
\* responses have not arrived yet
RemoveAt(q, i) == SubSeq(q, 1, i - 1) \o SubSeq(q, i + 1, Len(q))

\* fetchData (on mount and every 5 s): getGameSessionByCode reads the row
PollFetch(c) ==
    /\ cl[c].mounted
    /\ Len(cl[c].fetches) < MaxFetches
    /\ cl' = [cl EXCEPT ![c].fetches = Append(@, session)]
    /\ UNCHANGED <<topics, roster, sstatus, session, responses, inbox, teacher,
                   game_sessions, calls>>

\* fetchData after its await: setGameSession(sessionData); the responses of
\* two requests arrive in either order
PollApply(c, i) ==
    /\ cl[c].mounted
    /\ i \in 1..Len(cl[c].fetches)
    /\ cl' = [cl EXCEPT ![c].gameSession = cl[c].fetches[i],
                        ![c].fetches = RemoveAt(@, i)]
    /\ UNCHANGED <<topics, roster, sstatus, session, responses, inbox, teacher,
                   game_sessions, calls>>

\* the session is started and students are banned while the clients poll
NextPolling ==
    \/ \E c \in Students, st \in {"waiting", "playing"} : Join(c, st, OwnName(c))
    \/ fetchStudents
    \/ LobbyStartGame
    \/ \E s \in Students : BanRead(s)
    \/ BanUpdate
    \/ BanRemove
    \/ \E c \in Students : PollFetch(c)
    \/ \E c \in Students, i \in 1..MaxFetches : PollApply(c, i)

SpecPolling == Init /\ [][NextPolling]_vars

\* C21: a client that holds the current session row never replaces it with a
\* row read before the last write: after a response is applied the client
\* still holds the current row.
C21_NoStaleSnapshot ==
    [][\A c \in Students, i \in 1..MaxFetches :
          (PollApply(c, i) /\ cl[c].gameSession = session)
              => cl'[c].gameSession = session']_vars

(* ------------------------------------------------- creation of sessions *)
\* a row is identified by its position in game_sessions; calls[k].result is
\* the row the last call of k returned (0: none yet)
NewSession(gameCode) == [status |-> "not_started", game_code |-> gameCode]

\* createGameSession (GameLaunch.handleLaunch): generateGameCode, insert
createGameSession(gameCode) ==
    /\ Len(game_sessions) < MaxSessions
    /\ game_sessions' = Append(game_sessions, NewSession(gameCode))
    /\ UNCHANGED <<gameVars, calls>>

\* the rows the select of getOrCreateDefaultGameSession matches
ExistingSessions ==
    {i \in 1..Len(game_sessions) : game_sessions[i].status = "not_started"}

\* order('created_at', { ascending: false }).limit(1)
Latest(S) == CHOOSE i \in S : \A j \in S : j <= i

\* getOrCreateDefaultGameSession: the select; an existing row is returned
GetOrCreateRead(k) ==
    /\ calls[k].pc = "idle"
    /\ calls' = [calls EXCEPT ![k] =
                    IF ExistingSessions # {}
                    THEN [@ EXCEPT !.result = Latest(ExistingSessions)]
                    ELSE [@ EXCEPT !.pc = "insert", !.result = 0]]
    /\ calls'[k] # calls[k]
    /\ UNCHANGED <<gameVars, game_sessions>>

\* getOrCreateDefaultGameSession: the insert after a select that found no row
GetOrCreateInsert(k, gameCode) ==
    /\ calls[k].pc = "insert"
    /\ Len(game_sessions) < MaxSessions
    /\ game_sessions' = Append(game_sessions, NewSession(gameCode))
    /\ calls' = [calls EXCEPT ![k].pc = "idle",
                              ![k].result = Len(game_sessions) + 1]
    /\ UNCHANGED gameVars

\* updateGameSessionStatus(sessionId, status) on a row of the table
UpdateSessionRow(i, status) ==
    /\ i \in 1..Len(game_sessions)
    /\ game_sessions[i].status # status
    /\ game_sessions' = [game_sessions EXCEPT ![i].status = status]
    /\ UNCHANGED <<gameVars, calls>>

\* sessions are created, started and completed
NextSessions ==
    \/ \E code \in Codes : createGameSession(code)
    \/ \E k \in Callers : GetOrCreateRead(k)
    \/ \E k \in Callers, code \in Codes : GetOrCreateInsert(k, code)
    \/ \E i \in 1..MaxSessions, status \in {"in_progress", "completed"} :
            UpdateSessionRow(i, status)

SpecSessions == Init /\ [][NextSessions]_vars

\* the calls of getOrCreateDefaultGameSession alone
NextDefaultSession ==
    \/ \E k \in Callers : GetOrCreateRead(k)
    \/ \E k \in Callers, code \in Codes : GetOrCreateInsert(k, code)
    \/ \E i \in 1..MaxSessions, status \in {"in_progress", "completed"} :
            UpdateSessionRow(i, status)

SpecDefaultSession == Init /\ [][NextDefaultSession]_vars

Live(i) == game_sessions[i].status \in {"not_started", "in_progress"}

\* C22: no two rows of game_sessions with status not_started or in_progress
\* have the same game_code.
C22_CodeUniqueAmongLive ==
    \A i, j \in 1..Len(game_sessions) :
        (i # j /\ Live(i) /\ Live(j))
            => game_sessions[i].game_code # game_sessions[j].game_code

\* C23: whatever way calls of getOrCreateDefaultGameSession interleave, at
\* most one not_started row exists, and a call that returns while a
\* not_started row exists returns that row.
C23_OneCurrentSession ==
    [][/\ Cardinality(ExistingSessions') <= 1
       /\ \A k \in Callers :
            (GetOrCreateRead(k) /\ calls'[k].pc = "idle")
                => ExistingSessions = {calls'[k].result}]_vars

(* --------------------------------------------------------- failed commands *)
\* handleStartGame fails: updateStudentStatus finds no row for the student
StartGameFails ==
    /\ StartGameStudent
    /\ sstatus[Head(teacher.queue)] = "absent"

\* C24: when the first handleStartGame of a session fails, no student has
\* the status playing, as before the command (only handleStartGame writes
\* that status).
C24_FailedStartChangesNothing ==
    [][(StartGameFails /\ teacher.starts = 1)
          => \A s \in Students : sstatus'[s] # "playing"]_vars

(* ------------------------------------------------ independence of sessions *)
\* the session whose code a student typed into the join form; joinAsPlayer
\* is called with the code and takes the name only
TypedSession(c) == IF c = "s1" THEN "A" ELSE "B"

\* the session of the teacher's gameSession state
TeacherSession == "A"

\* a step of the teacher's session that starts it or bans from it
ControllerStep ==
    StartGameStudent \/ StartGameSession \/ LobbyStartGame \/ BanUpdate \/ BanRemove

\* C25: a step that starts the teacher's session or bans from it changes
\* neither the students row of a participant of another session nor the
\* events queued for that participant's client.
C25_SessionsIndependent ==
    [][ControllerStep =>
          \A c \in Students :
              TypedSession(c) # TeacherSession
                  => (sstatus'[c] = sstatus[c] /\ inbox'[c] = inbox[c])]_vars

(* ------------------------------------------------------- fair timers *)
\* a started game with its timers: the intervals and timeouts of a mounted
\* WaitingRoom fire as long as they are set, and the realtime events arrive
NextTimers ==
    \/ \E c \in Students, st \in {"waiting", "playing"} : Join(c, st, OwnName(c))
    \/ \E c \in Students : Deliver(c)
    \/ \E c \in Students : CountdownTick(c)
    \/ \E c \in Students : CountdownElapsed(c)
    \/ \E c \in Students : handleContinueFromNarrative(c)
    \/ \E c \in Students, o \in Options : handleAnswer(c, o)
    \/ \E c \in Students : handleTimeUp(c)
    \/ \E c \in Students : moveToNextQuestion(c)
    \/ LobbyStartGame

TimersFair ==
    \A c \in Students :
        /\ WF_vars(Deliver(c))
        /\ WF_vars(CountdownTick(c))
        /\ WF_vars(CountdownElapsed(c))
        /\ WF_vars(handleTimeUp(c))
        /\ WF_vars(moveToNextQuestion(c))

SpecTimers == Init /\ [][NextTimers]_vars /\ TimersFair

\* C26: with the timers firing, a session that was started becomes
\* completed with every mounted client on the results screen.
C26_StartedSessionFinishes ==
    (session.status = "in_progress")
        ~> (/\ session.status = "completed"
            /\ \A c \in Students : cl[c].mounted => Screen(cl[c]) = "results")

(* ------------------------------------------------------ answer feedback *)
\* C27: handleAnswer shows the submitter isCorrect = true exactly when the
\* option is the question's correct_option, and the row it inserts has the
\* question shown, the option selected and the isCorrect value shown.
C27_FeedbackMatchesRecord ==
    [][\A c \in Students, o \in Options :
          handleAnswer(c, o) =>
              LET q == getCurrentQuestion(cl[c].ti, cl[c].qi)
                  row == responses'[c][Len(responses'[c])]
              IN  /\ cl'[c].selectedOption = o
                  /\ cl'[c].isCorrect = <<o = correct_option(q)>>
                  /\ Len(responses'[c]) = Len(responses[c]) + 1
                  /\ row.question_id = <<cl[c].ti, cl[c].qi>>
                  /\ row.selected_option = cl'[c].selectedOption
                  /\ <<row.is_correct>> = cl'[c].isCorrect]_vars

\* a student sees the feedback for a wrong answer and another the feedback
\* for a correct one
C27_Witness ==
    /\ \E c \in Students :
          /\ cl[c].selectedOption \in Options
          /\ cl[c].isCorrect = <<FALSE>>
    /\ \E c \in Students :
          /\ cl[c].selectedOption \in Options
          /\ cl[c].isCorrect = <<TRUE>>

\* C30: on every client 0 <= correctAnswers <= totalAnswered <= the number
\* of questions of all topics.
C30_CountersWithinTotal ==
    \A c \in Students :
        /\ 0 <= cl[c].correctAnswers
        /\ cl[c].correctAnswers <= cl[c].totalAnswered
        /\ cl[c].totalAnswered <= getTotalQuestions

(* -------------------------------------------------- phase of a client *)
PhaseRank(status) ==
    CASE status = "waiting" -> 0
      [] status = "countdown" -> 1
      [] status = "playing" -> 2
      [] status = "results" -> 3

\* the countdown of the client has run down to 0 and its timeout has taken
\* the client into the game
LeftCountdown(r) ==
    /\ r.mounted
    /\ r.status \in {"playing", "results"}
    /\ r.countdown = 0

\* C28: the gameState.status of a client that has left the countdown for
\* the game only moves forward along playing -> results: no realtime event
\* takes it back to the countdown.
C28_PhaseMonotonic ==
    [][\A c \in Students :
          LeftCountdown(cl[c])
              => PhaseRank(cl'[c].status) >= PhaseRank(cl[c].status)]_vars

(* ------------------------------------------------------ overlapping bans *)
\* calls[k].target, banned: the student and the list read by the running
\* banStudentFromSession of k; done: the students whose ban by k returned
\* { success: true }
BanCallRead(k, s) ==
    /\ calls[k].pc = "idle"
    /\ cl[s].mounted
    /\ s \notin calls[k].done
    /\ calls' = [calls EXCEPT ![k].pc = "ban_update", ![k].target = s,
                              ![k].banned = session.banned_students]
    /\ UNCHANGED <<gameVars, game_sessions>>

\* update({ banned_students: bannedStudents })
BanCallUpdate(k) ==
    /\ calls[k].pc = "ban_update"
    /\ session' = [session EXCEPT
                      !.banned_students = BannedWith(calls[k].banned, calls[k].target)]
    /\ inbox' = IF session.status = "in_progress" THEN Notify(Students) ELSE inbox
    /\ calls' = [calls EXCEPT ![k].pc = "ban_remove"]
    /\ UNCHANGED <<topics, roster, sstatus, responses, cl, teacher, game_sessions>>

\* removeStudent(studentId); return { success: true }
BanCallRemove(k) ==
    /\ calls[k].pc = "ban_remove"
    /\ roster' = SeqRemove(roster, calls[k].target)
    /\ sstatus' = [sstatus EXCEPT ![calls[k].target] = "absent"]
    /\ calls' = [calls EXCEPT ![k].pc = "idle", ![k].done = @ \cup {calls[k].target}]
    /\ UNCHANGED <<topics, session, responses, cl, inbox, teacher, game_sessions>>

\* students join, the session is started and two clients ban
NextBans ==
    \/ \E c \in Students, st \in {"waiting", "playing"} : Join(c, st, OwnName(c))
    \/ LobbyStartGame
    \/ \E k \in Callers, s \in Students : BanCallRead(k, s)
    \/ \E k \in Callers : BanCallUpdate(k)
    \/ \E k \in Callers : BanCallRemove(k)

SpecBans == Init /\ [][NextBans]_vars

\* C29: every student whose ban returned success is in banned_students
\* exactly once.
C29_BansKeptOnce ==
    \A k \in Callers : \A s \in calls[k].done :
        Cardinality({i \in 1..Len(session.banned_students) :
                        session.banned_students[i] = s}) = 1

(* ------------------------------------------------ leaderboard properties *)
\* the number of rows of a student with is_correct true
CorrectCount(p) ==
    Cardinality({i \in 1..Len(responses[p]) : responses[p][i].is_correct})

EntryIds(stats) == [i \in 1..Len(stats) |-> stats[i].studentId]

HasEntry(stats, p) == \E i \in 1..Len(stats) : stats[i].studentId = p

PosIn(seq, x) == CHOOSE i \in 1..Len(seq) : seq[i] = x

\* when the student of a leaderboard entry reached the entry's score: the
\* submitted_at of the correct row that brought it there
ReachedAt(e) ==
    SelectSeq(responses[e.studentId], LAMBDA r : r.is_correct)[e.correctAnswers].submitted_at

BanStep == (\E b \in Students : BanRead(b)) \/ BanUpdate \/ BanRemove

C17_TiesByEarliest ==
    [][LobbyBoardEnd =>
          \A i, j \in 1..Len(teacher'.playerStats) :
              i < j =>
                  LET a == teacher'.playerStats[i]
                      b == teacher'.playerStats[j]
                  IN  \/ a.score > b.score
                      \/ /\ a.score = b.score
                         /\ a.score > 0 => ReachedAt(a) <= ReachedAt(b)]_vars

\* C17 amended: the leaderboard is ordered by score descending, and entries
\* with the same score keep the order of the student list they were computed
\* from: joined_at descending, the student who joined last first.
C17_TiesByJoinOrder ==
    [][/\ LobbyFetchStudents => teacher'.lstudents = Reverse(roster)
       /\ LobbyRefresh => teacher'.lqueue = teacher.lstudents
       /\ LobbyBoardEnd =>
              \A i, j \in 1..Len(teacher'.playerStats) :
                  i < j =>
                      LET a == teacher'.playerStats[i]
                          b == teacher'.playerStats[j]
                      IN  /\ a.score >= b.score
                          /\ a.score = b.score =>
                                /\ PosIn(EntryIds(teacher.lstats), a.studentId)
                                      < PosIn(EntryIds(teacher.lstats), b.studentId)
                                /\ (a.studentId \in SeqElems(roster)
                                      /\ b.studentId \in SeqElems(roster))
                                      => PosIn(roster, a.studentId)
                                            > PosIn(roster, b.studentId)]_vars

\* two students have 10 points, and the one listed first reached them later
C17_Witness ==
    /\ teacher.lpc = "idle"
    /\ Len(teacher.playerStats) = 2
    /\ teacher.playerStats[1].score = 10
    /\ teacher.playerStats[2].score = 10
    /\ ReachedAt(teacher.playerStats[1]) > ReachedAt(teacher.playerStats[2])

\* C18: the score computed for a student does not depend on the order in
\* which the rows are returned: every order of the student's rows gives the
\* score the entry gets.
C18_ScoreOrderIndependent ==
    [][LobbyBoardStudent =>
          LET p == Head(teacher.lqueue)
              e == teacher'.lstats[Len(teacher'.lstats)]
          IN  \A rows \in getStudentResponses(p) :
                  PlayerStatsOf(p, rows).score = e.score]_vars

\* an entry was computed for a student whose two rows differ in correctness
C18_Witness ==
    \E i \in 1..Len(teacher.lstats) :
        LET p == teacher.lstats[i].studentId
        IN  /\ Len(responses[p]) = 2
            /\ responses[p][1].is_correct # responses[p][2].is_correct
            /\ teacher.lstats[i].totalAnswered = 2

\* C19: when the event of an inserted response has been handled, the
\* leaderboard has an entry for every student of the table, with the score of
\* the student's rows.
C19_PushRecomputesLeaderboard ==
    [][LobbyPush =>
          \A p \in SeqElems(roster) :
              \E i \in 1..Len(teacher'.playerStats) :
                  /\ teacher'.playerStats[i].studentId = p
                  /\ teacher'.playerStats[i].score = 10 * CorrectCount(p)]_vars

====
